---- MODULE Spec2Model ----
(***************************************************************************)
(* State-machine model of the POSIX-thread hardware-control programs of    *)
(* this repository:                                                        *)
(*   - src/latencyJitterTests.c lines 103-615 (pthrdsThreeThrdsHWMapP9):   *)
(*     main + taskOne (OutputTask) + taskTwo (DependentTask) + taskThree   *)
(*     (MeasurementTask);                                                  *)
(*   - src/pthrdsTwoThrdsLEDIPC.c: main + taskOne + taskTwo.               *)
(* A program counter value "Lnnn" is the source line of the statement the  *)
(* thread executes next.  One action is one access to shared state (a      *)
(* global, a semaphore, the mutex, a mapped register) together with the    *)
(* thread-local statements that precede it.                                *)
(***************************************************************************)
EXTENDS Integers, Sequences, FiniteSets, TLC

VARIABLES
    prog,           \* which program runs: "three", "two", "latency" or "rtprio"
    \* ---- main (Orchestrator)
    pcM,            \* main's position
    mapped,         \* window -> "none" | "ok" | "failed" | "unmapped"
    exitCode,       \* -1 while running, else the value returned by main
    joined,         \* sequence of the threads main has joined, in order
    \* ---- globals shared by the threads
    gThdLoopCnt,    \* SharedCounter
    sharedVariableMutex,   \* 0 = free, else the id of the owning thread
    semLED,         \* SignalLatch count
    gThd1IdHolder,  \* 0 or the thread id written by taskOne
    gThd2IdHolder,  \* 0 or the thread id written by taskTwo (gThdIdHolder in the two-task program)
    cancelReq,      \* thread id -> cancellation pending
    measurementCnt, \* SampleBuffer length
    tsStart, tsEnd, \* <<tv_sec, tv_nsec>>
    \* ---- device registers / on-chip memory
    gpio1,          \* set of LED bits (0..3) set in the GPIO1 data register
    fpgaLed,        \* set of LED bits (0..3) set in the FPGA PIO LED byte
    fpgaMem0,       \* control word at offset 0 of the on-chip memory
    times,          \* sample array in on-chip memory: the slots written so far, index -> value
    \* ---- taskOne
    pc1, odd1, tmp1, reg1,
    \* ---- taskTwo
    pc2, reg2, ramRead,
    \* ---- taskThree
    pc3, tmp3, iters, ev3,
    \* ---- the single-threaded timing programs (latency test, rtPrioTests)
    count, result,  \* latency test: iterations done, last value of select()
    min, max, average,   \* latency test: statistics of |current| in microseconds
    iR,             \* rtPrioTests: loop index i
    schedFailed,    \* sched_setscheduler has returned -1
    \* ---- the affinity demonstration (sysCallsCPUSched)
    cpuSet,         \* the local cpu_set_t mask: a set of processor numbers
    affinity,       \* the process's hard affinity, kept by the kernel
    online,         \* the processors of the machine
    \* ---- history (not program state)
    inc1, inc2,     \* increments performed by taskOne / taskTwo
    posts, wakes,   \* sem_post calls done / sem_wait calls returned
    badAccess,      \* windows accessed while not validly mapped
    unlockedAcc     \* threads that accessed gThdLoopCnt without holding the mutex

mainVars  == <<pcM, mapped, exitCode, joined>>
syncVars  == <<gThdLoopCnt, sharedVariableMutex, semLED>>
idVars    == <<gThd1IdHolder, gThd2IdHolder, cancelReq>>
measVars  == <<measurementCnt, tsStart, tsEnd, times>>
regVars   == <<gpio1, fpgaLed, fpgaMem0>>
t1Vars    == <<pc1, odd1, tmp1, reg1>>
t2Vars    == <<pc2, reg2, ramRead>>
t3Vars    == <<pc3, tmp3, iters, ev3>>
histVars  == <<inc1, inc2, posts, wakes, badAccess, unlockedAcc>>
soloVars  == <<count, result, min, max, average, iR, schedFailed>>
affVars   == <<cpuSet, affinity, online>>
vars == <<prog, affVars, soloVars, mainVars, syncVars, idVars, measVars, regVars,
          t1Vars, t2Vars, t3Vars, histVars>>

(***************************************************************************)
(* Program constants                                                       *)
(***************************************************************************)
MEAS_ARRAY_SIZE == 50
LOOP_THRESHOLD == 30
SIGNAL_INTERVAL == 5
RAM_MAGIC == 61183

LED0 == 0
LED1 == 1
LED2 == 2
LED3 == 3
ALL_ON == {LED0, LED1, LED2, LED3}

\* thread ids as returned by pthread_self(); 0 is the holders' initial value
TID1 == 1
TID2 == 2
TID3 == 3

Windows == {"GPIO1", "FPGAPIO", "GPIO2", "FPGAMEM"}

(***************************************************************************)
(* Bounds of the model                                                     *)
(***************************************************************************)
\* taskOne is not scheduled past its sleep once the counter has this value
MaxCnt == 31
\* measurement-loop iterations taskThree performs in one run
MaxIter == 2
\* largest tv_nsec / tv_sec value the clock returns
MaxNsec == 1
MaxSec == 1
\* measurement-loop iterations of the run that fills the sample buffer
FillIter == 52

(***************************************************************************)
(* Helpers                                                                 *)
(***************************************************************************)
Valid(w) == mapped[w] = "ok"

\* Clock readings the environment may return
ClockValues == (0..MaxSec) \X (0..MaxNsec)

NoEvent == [fails |-> {}, reports |-> <<>>]

\* A load or store through a base pointer that is MAP_FAILED (or was
\* unmapped) raises SIGSEGV: the access is recorded and the process dies.
Killed ==
    /\ pcM' = "killed" /\ pc1' = "killed" /\ pc2' = "killed" /\ pc3' = "killed"
    /\ UNCHANGED <<prog, affVars, soloVars, mapped, exitCode, joined, syncVars, idVars, measVars,
                   regVars, odd1, tmp1, reg1, reg2, ramRead, tmp3, iters,
                   ev3, inc1, inc2, posts, wakes, unlockedAcc>>

Segv(w) ==
    /\ badAccess' = badAccess \cup {w}
    /\ Killed

\* An access to gThdLoopCnt by thread t: noted when t does not own the mutex
NoteAccess(t) ==
    unlockedAcc' = IF sharedVariableMutex = t THEN unlockedAcc
                   ELSE unlockedAcc \cup {t}

\* a store that always writes the first slot
Store_First(mem, i, v) ==
    [j \in DOMAIN mem \cup {0} |-> IF j = 0 THEN v ELSE mem[j]]

\* timesPtr[i] = v
Store(mem, i, v) ==
    [j \in DOMAIN mem \cup {i} |-> IF j = i THEN v ELSE mem[j]]

\* pthread_cancel(holder): a holder still 0 names no thread
CancelTarget(holder) ==
    IF holder = 0 THEN cancelReq ELSE [cancelReq EXCEPT ![holder] = TRUE]

(***************************************************************************)
(* Initial state: process start of either program                          *)
(***************************************************************************)
InitExceptAffinity ==
    /\ mapped = [w \in Windows |-> "none"]
    /\ exitCode = -1
    /\ joined = <<>>
    /\ gThdLoopCnt = 0
    /\ sharedVariableMutex = 0
    /\ semLED = 0
    /\ gThd1IdHolder = 0
    /\ gThd2IdHolder = 0
    /\ cancelReq = [t \in {TID1, TID2} |-> FALSE]
    /\ measurementCnt = 0
    /\ tsStart = <<0, 0>>
    /\ tsEnd = <<0, 0>>
    /\ gpio1 \in {{}, ALL_ON}
    /\ fpgaLed = {}
    /\ fpgaMem0 \in {0, 1}
    /\ times = <<>>
    /\ pc1 = "idle" /\ odd1 = FALSE /\ tmp1 = {} /\ reg1 = 0
    /\ pc2 = "idle" /\ reg2 = 0 /\ ramRead = 0
    /\ pc3 = "idle" /\ tmp3 = {} /\ iters = 0 /\ ev3 = NoEvent
    /\ inc1 = 0 /\ inc2 = 0 /\ posts = 0 /\ wakes = 0
    /\ badAccess = {} /\ unlockedAcc = {}
    /\ count = 0 /\ result = 0 /\ min = 0 /\ max = 0 /\ average = 0
    /\ iR = 0 /\ schedFailed = FALSE

InitCommon ==
    /\ InitExceptAffinity
    /\ cpuSet = {} /\ affinity = {} /\ online = {}

Init3 ==
    /\ prog = "three"
    /\ pcM = "L495"
    /\ InitCommon

(***************************************************************************)
(* main of the three-task program (latencyJitterTests.c 460-615)           *)
(***************************************************************************)
\* open + mmap of one window; on failure the error is printed, the file
\* descriptor closed, and main goes on to the next statement
MapStep(from, w, to) ==
    /\ pcM = from
    /\ \E ok \in BOOLEAN :
         mapped' = [mapped EXCEPT ![w] = IF ok THEN "ok" ELSE "failed"]
    /\ pcM' = to
    /\ UNCHANGED <<prog, affVars, soloVars, exitCode, joined, syncVars, idVars, measVars, regVars,
                   t1Vars, t2Vars, t3Vars, histVars>>

\* an unmapping that reports a failure and goes on to the next window
UnmapStep_GoOn(from, w, to) ==
    /\ pcM = from
    /\ \E ok \in BOOLEAN :
         /\ mapped' = IF ok THEN [mapped EXCEPT ![w] = "unmapped"] ELSE mapped
         /\ pcM' = to
         /\ exitCode' = IF ~ok THEN 1
                        ELSE IF to = "done" /\ exitCode = -1 THEN 0 ELSE exitCode
    /\ UNCHANGED <<prog, affVars, soloVars, joined, syncVars, idVars, measVars, regVars,
                   t1Vars, t2Vars, t3Vars, histVars>>

\* munmap of one window; on failure main returns 1 at once
UnmapStep(from, w, to) ==
    /\ pcM = from
    /\ \E ok \in BOOLEAN :
         IF ok
         THEN /\ mapped' = [mapped EXCEPT ![w] = "unmapped"]
              /\ pcM' = to
              /\ exitCode' = IF to = "done" THEN 0 ELSE exitCode
         ELSE /\ pcM' = "done"
              /\ exitCode' = 1
              /\ UNCHANGED mapped
    /\ UNCHANGED <<prog, affVars, soloVars, joined, syncVars, idVars, measVars, regVars,
                   t1Vars, t2Vars, t3Vars, histVars>>

\* a store of main through window w that changes no modelled register bit
MainTouch(from, w, to) ==
    /\ pcM = from
    /\ IF Valid(w)
       THEN /\ pcM' = to
            /\ UNCHANGED <<prog, affVars, soloVars, mapped, exitCode, joined, syncVars, idVars,
                           measVars, regVars, t1Vars, t2Vars, t3Vars, histVars>>
       ELSE Segv(w)

\* *(gpio1BaseAddrPtr) = *(gpio1BaseAddrPtr) & ~(HPS_GPIO1_ALL_ON)
MainClearGpio1(from, to) ==
    /\ pcM = from
    /\ IF Valid("GPIO1")
       THEN /\ gpio1' = gpio1 \ ALL_ON
            /\ pcM' = to
            /\ UNCHANGED <<prog, affVars, soloVars, mapped, exitCode, joined, syncVars, idVars,
                           measVars, fpgaLed, fpgaMem0, t1Vars, t2Vars, t3Vars,
                           histVars>>
       ELSE Segv("GPIO1")

\* FPGA LED byte &= ~FPGA_PIO_LED_ALL_ON
MainClearFpga(from, to) ==
    /\ pcM = from
    /\ IF Valid("FPGAPIO")
       THEN /\ fpgaLed' = fpgaLed \ ALL_ON
            /\ pcM' = to
            /\ UNCHANGED <<prog, affVars, soloVars, mapped, exitCode, joined, syncVars, idVars,
                           measVars, gpio1, fpgaMem0, t1Vars, t2Vars, t3Vars,
                           histVars>>
       ELSE Segv("FPGAPIO")

\* pthread_join(t): returns once thread t has terminated
JoinStep(from, t, tpc, to) ==
    /\ pcM = from
    /\ tpc = "exited"
    /\ joined' = Append(joined, t)
    /\ pcM' = to
    /\ UNCHANGED <<prog, affVars, soloVars, mapped, exitCode, syncVars, idVars, measVars, regVars,
                   t1Vars, t2Vars, t3Vars, histVars>>

M_L495 == MapStep("L495", "GPIO1", "L506")
M_L506 == MapStep("L506", "FPGAPIO", "L517")
M_L517 == MapStep("L517", "GPIO2", "L528")
M_L528 == MapStep("L528", "FPGAMEM", "L538")
M_L538 == MainTouch("L538", "GPIO1", "L542")
M_L542 == MainTouch("L542", "GPIO2", "L546")
M_L546 == MainClearGpio1("L546", "L550")

\* pthread_mutex_init, sem_init(&semLED, 0, 0)
M_L550 ==
    /\ pcM = "L550"
    /\ sharedVariableMutex' = 0
    /\ semLED' = 0
    /\ pcM' = "L556"
    /\ UNCHANGED <<prog, affVars, soloVars, mapped, exitCode, joined, gThdLoopCnt, idVars, measVars,
                   regVars, t1Vars, t2Vars, t3Vars, histVars>>

\* the three pthread_create calls
M_L556 ==
    /\ pcM = "L556"
    /\ pc1' = "L249" /\ pc2' = "L313" /\ pc3' = "L384"
    /\ pcM' = "L561"
    /\ UNCHANGED <<prog, affVars, soloVars, mapped, exitCode, joined, syncVars, idVars, measVars,
                   regVars, odd1, tmp1, reg1, reg2, ramRead, tmp3, iters,
                   ev3, histVars>>

\* a first join that waits for taskThree
M_L561_JoinThree == JoinStep("L561", TID3, pc3, "L563")

M_L561 == JoinStep("L561", TID1, pc1, "L563")
M_L563 == JoinStep("L563", TID2, pc2, "L565")
M_L565 == JoinStep("L565", TID3, pc3, "L569")
M_L569 == MainClearGpio1("L569", "L573")
\* a step that touches the FPGA LED byte without clearing it
M_L573_NoClear == MainTouch("L573", "FPGAPIO", "L577")

M_L573 == MainClearFpga("L573", "L577")
\* read-out loop over timesPtr[0 .. measurementCnt-1]
M_L577 == MainTouch("L577", "FPGAMEM", "L585")
M_L585 == UnmapStep("L585", "GPIO1", "L592")
M_L592 == UnmapStep("L592", "FPGAPIO", "L599")
M_L599 == UnmapStep("L599", "GPIO2", "L606")
M_L606 == UnmapStep("L606", "FPGAMEM", "done")

\* main up to and including the creation of the threads
MainStart3 ==
    \/ M_L495 \/ M_L506 \/ M_L517 \/ M_L528 \/ M_L538 \/ M_L542 \/ M_L546
    \/ M_L550 \/ M_L556

Main3 ==
    \/ MainStart3 \/ M_L561 \/ M_L563 \/ M_L565 \/ M_L569 \/ M_L573
    \/ M_L577 \/ M_L585 \/ M_L592 \/ M_L599 \/ M_L606

(***************************************************************************)
(* taskOne of the three-task program (latencyJitterTests.c 246-306)        *)
(***************************************************************************)
\* gThd1IdHolder = pthread_self()
T1_L249 ==
    /\ pc1 = "L249"
    /\ gThd1IdHolder' = TID1
    /\ pc1' = "L252"
    /\ UNCHANGED <<prog, affVars, soloVars, mainVars, syncVars, gThd2IdHolder, cancelReq, measVars,
                   regVars, odd1, tmp1, reg1, t2Vars, t3Vars, histVars>>

\* if (gThdLoopCnt % 2): the counter is read without the mutex
T1_L252 ==
    /\ pc1 = "L252"
    /\ odd1' = (gThdLoopCnt % 2 = 1)
    /\ NoteAccess(TID1)
    /\ pc1' = "L255"
    /\ UNCHANGED <<prog, affVars, soloVars, mainVars, syncVars, idVars, measVars, regVars,
                   tmp1, reg1, t2Vars, t3Vars, inc1, inc2, posts, wakes, badAccess>>

\* printf, then the load of *(gpio1BaseAddrPtr) (line 255 or 260)
T1_L255 ==
    /\ pc1 = "L255"
    /\ IF Valid("GPIO1")
       THEN /\ tmp1' = gpio1
            /\ pc1' = "L255w"
            /\ UNCHANGED <<prog, affVars, soloVars, mainVars, syncVars, idVars, measVars, regVars,
                           odd1, reg1, t2Vars, t3Vars, histVars>>
       ELSE Segv("GPIO1")

\* a write-back that clears the whole data word on an even count
T1_L255w_ClearAll ==
    /\ pc1 = "L255w"
    /\ IF Valid("GPIO1")
       THEN /\ gpio1' = IF odd1 THEN tmp1 \cup {LED1} ELSE {}
            /\ odd1' = FALSE /\ tmp1' = {}
            /\ pc1' = "L262"
            /\ UNCHANGED <<prog, affVars, soloVars, mainVars, syncVars, idVars, measVars, fpgaLed,
                           fpgaMem0, reg1, t2Vars, t3Vars, histVars>>
       ELSE Segv("GPIO1")

\* the store of the read-modify-write: | LED1 (odd) or & ~LED1 (even)
T1_L255w ==
    /\ pc1 = "L255w"
    /\ IF Valid("GPIO1")
       THEN /\ gpio1' = IF odd1 THEN tmp1 \cup {LED1} ELSE tmp1 \ {LED1}
            /\ odd1' = FALSE /\ tmp1' = {}
            /\ pc1' = "L262"
            /\ UNCHANGED <<prog, affVars, soloVars, mainVars, syncVars, idVars, measVars, fpgaLed,
                           fpgaMem0, reg1, t2Vars, t3Vars, histVars>>
       ELSE Segv("GPIO1")

\* usleep(500000): a cancellation point; returns only with no request pending
T1_L262 ==
    /\ pc1 = "L262"
    /\ ~cancelReq[TID1]
    /\ gThdLoopCnt < MaxCnt
    /\ pc1' = "L285"
    /\ UNCHANGED <<prog, affVars, soloVars, mainVars, syncVars, idVars, measVars, regVars,
                   odd1, tmp1, reg1, t2Vars, t3Vars, histVars>>

\* read of the GPIO2 button register; a pressed button is reported with
\* printf, where a pending cancellation may be acted on
T1_L285 ==
    /\ pc1 = "L285"
    /\ IF Valid("GPIO2")
       THEN /\ \E pressed \in BOOLEAN :
                 pc1' = IF pressed /\ cancelReq[TID1] THEN "exited" ELSE "L291"
            /\ UNCHANGED <<prog, affVars, soloVars, mainVars, syncVars, idVars, measVars, regVars,
                           odd1, tmp1, reg1, t2Vars, t3Vars, histVars>>
       ELSE Segv("GPIO2")

\* pthread_mutex_lock (not a cancellation point)
\* a lock that is granted while another thread owns it
T1_L291_NoExclusion ==
    /\ pc1 = "L291"
    /\ sharedVariableMutex' = TID1
    /\ pc1' = "L292"
    /\ UNCHANGED <<prog, affVars, soloVars, mainVars, gThdLoopCnt, semLED, idVars, measVars, regVars,
                   odd1, tmp1, reg1, t2Vars, t3Vars, histVars>>

\* pthread_mutex_lock(&sharedVariableMutex)
T1_L291 ==
    /\ pc1 = "L291"
    /\ sharedVariableMutex = 0
    /\ sharedVariableMutex' = TID1
    /\ pc1' = "L292"
    /\ UNCHANGED <<prog, affVars, soloVars, mainVars, gThdLoopCnt, semLED, idVars, measVars, regVars,
                   odd1, tmp1, reg1, t2Vars, t3Vars, histVars>>

\* gThdLoopCnt++ : the load
T1_L292 ==
    /\ pc1 = "L292"
    /\ reg1' = gThdLoopCnt
    /\ NoteAccess(TID1)
    /\ pc1' = "L292w"
    /\ UNCHANGED <<prog, affVars, soloVars, mainVars, syncVars, idVars, measVars, regVars,
                   odd1, tmp1, t2Vars, t3Vars, inc1, inc2, posts, wakes, badAccess>>

\* a store that adds two
T1_L292w_Twice ==
    /\ pc1 = "L292w"
    /\ gThdLoopCnt' = reg1 + 2
    /\ reg1' = 0
    /\ inc1' = inc1 + 1
    /\ NoteAccess(TID1)
    /\ pc1' = "L294"
    /\ UNCHANGED <<prog, affVars, soloVars, mainVars, sharedVariableMutex, semLED, idVars, measVars,
                   regVars, odd1, tmp1, t2Vars, t3Vars, inc2, posts, wakes,
                   badAccess>>

\* gThdLoopCnt++ : the store
T1_L292w ==
    /\ pc1 = "L292w"
    /\ gThdLoopCnt' = reg1 + 1
    /\ reg1' = 0
    /\ inc1' = inc1 + 1
    /\ NoteAccess(TID1)
    /\ pc1' = "L294"
    /\ UNCHANGED <<prog, affVars, soloVars, mainVars, sharedVariableMutex, semLED, idVars, measVars,
                   regVars, odd1, tmp1, t2Vars, t3Vars, inc2, posts, wakes,
                   badAccess>>

\* a statement that touches the control word without writing it
T1_L294_NoWrite ==
    /\ pc1 = "L294"
    /\ IF Valid("FPGAMEM")
       THEN /\ pc1' = "L295"
            /\ UNCHANGED <<prog, affVars, soloVars, mainVars, syncVars, idVars, measVars,
                           regVars, odd1, tmp1, reg1, t2Vars, t3Vars, histVars>>
       ELSE Segv("FPGAMEM")

\* *((uint32_t*)(fpgaMemBaseAddrPtr + FPGA_PIO_RAM_OFFSET)) = 0xEEFF
T1_L294 ==
    /\ pc1 = "L294"
    /\ IF Valid("FPGAMEM")
       THEN /\ fpgaMem0' = RAM_MAGIC
            /\ pc1' = "L295"
            /\ UNCHANGED <<prog, affVars, soloVars, mainVars, syncVars, idVars, measVars, gpio1,
                           fpgaLed, odd1, tmp1, reg1, t2Vars, t3Vars, histVars>>
       ELSE Segv("FPGAMEM")

\* printf("task one count ...") with the mutex held, then pthread_mutex_unlock
T1_L295 ==
    /\ pc1 = "L295"
    /\ sharedVariableMutex' = 0
    /\ NoteAccess(TID1)
    /\ pc1' = "L300"
    /\ UNCHANGED <<prog, affVars, soloVars, mainVars, gThdLoopCnt, semLED, idVars, measVars, regVars,
                   odd1, tmp1, reg1, t2Vars, t3Vars, inc1, inc2, posts, wakes,
                   badAccess>>

\* a test that sends a signal after every increment
T1_L300_Always ==
    /\ pc1 = "L300"
    /\ NoteAccess(TID1)
    /\ pc1' = "L302"
    /\ UNCHANGED <<prog, affVars, soloVars, mainVars, syncVars, idVars, measVars, regVars,
                   odd1, tmp1, reg1, t2Vars, t3Vars, inc1, inc2, posts, wakes,
                   badAccess>>

\* if (!(gThdLoopCnt % 5)): the counter is read again, after the unlock
T1_L300 ==
    /\ pc1 = "L300"
    /\ NoteAccess(TID1)
    /\ pc1' = IF gThdLoopCnt % SIGNAL_INTERVAL = 0 THEN "L302" ELSE "L252"
    /\ UNCHANGED <<prog, affVars, soloVars, mainVars, syncVars, idVars, measVars, regVars,
                   odd1, tmp1, reg1, t2Vars, t3Vars, inc1, inc2, posts, wakes,
                   badAccess>>

\* a post that sets the count to 1 instead of adding 1
T1_L302_Binary ==
    /\ pc1 = "L302"
    /\ semLED' = 1
    /\ posts' = posts + 1
    /\ pc1' = "L252"
    /\ UNCHANGED <<prog, affVars, soloVars, mainVars, gThdLoopCnt, sharedVariableMutex, idVars,
                   measVars, regVars, odd1, tmp1, reg1, t2Vars, t3Vars, inc1, inc2,
                   wakes, badAccess, unlockedAcc>>

\* sem_post(&semLED)
T1_L302 ==
    /\ pc1 = "L302"
    /\ semLED' = semLED + 1
    /\ posts' = posts + 1
    /\ pc1' = "L252"
    /\ UNCHANGED <<prog, affVars, soloVars, mainVars, gThdLoopCnt, sharedVariableMutex, idVars,
                   measVars, regVars, odd1, tmp1, reg1, t2Vars, t3Vars, inc1, inc2,
                   wakes, badAccess, unlockedAcc>>

\* Cancellation points of taskOne: the printf before the LED access (254 /
\* 259), usleep (262), and the printf made with the mutex held (295).
\* Deferred cancellation terminates the thread there; no cleanup handler is
\* installed, so a mutex it holds stays locked.
T1CancelPoints == {"L255", "L262", "L295"}

T1_Cancel ==
    /\ pc1 \in T1CancelPoints
    /\ cancelReq[TID1]
    /\ pc1' = "exited"
    /\ UNCHANGED <<prog, affVars, soloVars, mainVars, syncVars, idVars, measVars, regVars,
                   odd1, tmp1, reg1, t2Vars, t3Vars, histVars>>

TaskOne3 ==
    \/ T1_L249 \/ T1_L252 \/ T1_L255 \/ T1_L255w \/ T1_L262 \/ T1_L285
    \/ T1_L291 \/ T1_L292 \/ T1_L292w \/ T1_L294 \/ T1_L295 \/ T1_L300
    \/ T1_L302 \/ T1_Cancel

(***************************************************************************)
(* taskTwo of the three-task program (latencyJitterTests.c 310-363)        *)
(***************************************************************************)
\* gThd2IdHolder = pthread_self()
T2_L313 ==
    /\ pc2 = "L313"
    /\ gThd2IdHolder' = TID2
    /\ pc2' = "L317"
    /\ UNCHANGED <<prog, affVars, soloVars, mainVars, syncVars, gThd1IdHolder, cancelReq, measVars,
                   regVars, t1Vars, reg2, ramRead, t3Vars, histVars>>

\* sem_wait(&semLED): blocks while the count is 0; a cancellation point
\* a wait that returns although the count is zero
T2_L317_NoBlock ==
    /\ pc2 = "L317"
    /\ ~cancelReq[TID2]
    /\ semLED' = semLED - 1
    /\ wakes' = wakes + 1
    /\ pc2' = "L320"
    /\ UNCHANGED <<prog, affVars, soloVars, mainVars, gThdLoopCnt, sharedVariableMutex, idVars,
                   measVars, regVars, t1Vars, reg2, ramRead, t3Vars, inc1, inc2,
                   posts, badAccess, unlockedAcc>>

\* sem_wait(&semLED)
T2_L317 ==
    /\ pc2 = "L317"
    /\ ~cancelReq[TID2]
    /\ semLED > 0
    /\ semLED' = semLED - 1
    /\ wakes' = wakes + 1
    /\ pc2' = "L320"
    /\ UNCHANGED <<prog, affVars, soloVars, mainVars, gThdLoopCnt, sharedVariableMutex, idVars,
                   measVars, regVars, t1Vars, reg2, ramRead, t3Vars, inc1, inc2,
                   posts, badAccess, unlockedAcc>>

\* printf, then FPGA LED byte |= FPGA_PIO_LED2 (taskTwo is the only writer)
T2_L320 ==
    /\ pc2 = "L320"
    /\ IF Valid("FPGAPIO")
       THEN /\ fpgaLed' = fpgaLed \cup {LED2}
            /\ pc2' = "L322"
            /\ UNCHANGED <<prog, affVars, soloVars, mainVars, syncVars, idVars, measVars, gpio1,
                           fpgaMem0, t1Vars, reg2, ramRead, t3Vars, histVars>>
       ELSE Segv("FPGAPIO")

\* usleep(1000000): a cancellation point
T2_L322 ==
    /\ pc2 = "L322"
    /\ ~cancelReq[TID2]
    /\ pc2' = "L325"
    /\ UNCHANGED <<prog, affVars, soloVars, mainVars, syncVars, idVars, measVars, regVars,
                   t1Vars, reg2, ramRead, t3Vars, histVars>>

\* printf, then FPGA LED byte &= ~FPGA_PIO_LED2
T2_L325 ==
    /\ pc2 = "L325"
    /\ IF Valid("FPGAPIO")
       THEN /\ fpgaLed' = fpgaLed \ {LED2}
            /\ pc2' = "L329"
            /\ UNCHANGED <<prog, affVars, soloVars, mainVars, syncVars, idVars, measVars, gpio1,
                           fpgaMem0, t1Vars, reg2, ramRead, t3Vars, histVars>>
       ELSE Segv("FPGAPIO")

\* a lock that is granted while taskOne owns it
T2_L329_NoExclusion ==
    /\ pc2 = "L329"
    /\ sharedVariableMutex' = TID2
    /\ pc2' = "L331"
    /\ UNCHANGED <<prog, affVars, soloVars, mainVars, gThdLoopCnt, semLED, idVars, measVars, regVars,
                   t1Vars, reg2, ramRead, t3Vars, histVars>>

\* pthread_mutex_lock
T2_L329 ==
    /\ pc2 = "L329"
    /\ sharedVariableMutex = 0
    /\ sharedVariableMutex' = TID2
    /\ pc2' = "L331"
    /\ UNCHANGED <<prog, affVars, soloVars, mainVars, gThdLoopCnt, semLED, idVars, measVars, regVars,
                   t1Vars, reg2, ramRead, t3Vars, histVars>>

\* gThdLoopCnt++ : the load
T2_L331 ==
    /\ pc2 = "L331"
    /\ reg2' = gThdLoopCnt
    /\ NoteAccess(TID2)
    /\ pc2' = "L331w"
    /\ UNCHANGED <<prog, affVars, soloVars, mainVars, syncVars, idVars, measVars, regVars,
                   t1Vars, ramRead, t3Vars, inc1, inc2, posts, wakes, badAccess>>

\* gThdLoopCnt++ : the store
T2_L331w ==
    /\ pc2 = "L331w"
    /\ gThdLoopCnt' = reg2 + 1
    /\ reg2' = 0
    /\ inc2' = inc2 + 1
    /\ NoteAccess(TID2)
    /\ pc2' = "L333"
    /\ UNCHANGED <<prog, affVars, soloVars, mainVars, sharedVariableMutex, semLED, idVars, measVars,
                   regVars, t1Vars, ramRead, t3Vars, inc1, posts, wakes,
                   badAccess>>

\* the arguments of printf (333-334): gThdLoopCnt and the RAM control word
T2_L333 ==
    /\ pc2 = "L333"
    /\ IF Valid("FPGAMEM")
       THEN /\ ramRead' = fpgaMem0
            /\ NoteAccess(TID2)
            /\ pc2' = "L337"
            /\ UNCHANGED <<prog, affVars, soloVars, mainVars, syncVars, idVars, measVars, regVars,
                           t1Vars, reg2, t3Vars, inc1, inc2, posts, wakes,
                           badAccess>>
       ELSE Segv("FPGAMEM")

\* the printf itself (mutex held), then pthread_mutex_unlock
T2_L337 ==
    /\ pc2 = "L337"
    /\ sharedVariableMutex' = 0
    /\ pc2' = "L359"
    /\ UNCHANGED <<prog, affVars, soloVars, mainVars, gThdLoopCnt, semLED, idVars, measVars, regVars,
                   t1Vars, reg2, ramRead, t3Vars, histVars>>

\* a poll that goes back to the indicator write, past the wait
T2_L359_SkipWait ==
    /\ pc2 = "L359"
    /\ IF Valid("FPGAPIO")
       THEN /\ \E pressed \in BOOLEAN :
                 pc2' = IF pressed /\ cancelReq[TID2] THEN "exited" ELSE "L320"
            /\ UNCHANGED <<prog, affVars, soloVars, mainVars, syncVars, idVars, measVars, regVars,
                           t1Vars, reg2, ramRead, t3Vars, histVars>>
       ELSE Segv("FPGAPIO")

\* read of the FPGA button byte; a pressed button is reported with printf
T2_L359 ==
    /\ pc2 = "L359"
    /\ IF Valid("FPGAPIO")
       THEN /\ \E pressed \in BOOLEAN :
                 pc2' = IF pressed /\ cancelReq[TID2] THEN "exited" ELSE "L317"
            /\ UNCHANGED <<prog, affVars, soloVars, mainVars, syncVars, idVars, measVars, regVars,
                           t1Vars, reg2, ramRead, t3Vars, histVars>>
       ELSE Segv("FPGAPIO")

\* Cancellation points of taskTwo: sem_wait (317), the printf calls (319,
\* 324, 333) and usleep (322).
T2CancelPoints == {"L317", "L320", "L322", "L325", "L337"}

T2_Cancel ==
    /\ pc2 \in T2CancelPoints
    /\ cancelReq[TID2]
    /\ pc2' = "exited"
    /\ UNCHANGED <<prog, affVars, soloVars, mainVars, syncVars, idVars, measVars, regVars,
                   t1Vars, reg2, ramRead, t3Vars, histVars>>

TaskTwo3 ==
    \/ T2_L313 \/ T2_L317 \/ T2_L320 \/ T2_L322 \/ T2_L325 \/ T2_L329
    \/ T2_L331 \/ T2_L331w \/ T2_L333 \/ T2_L337 \/ T2_L359 \/ T2_Cancel

(***************************************************************************)
(* taskThree (latencyJitterTests.c 367-458)                                *)
(***************************************************************************)
\* what a library call leaves behind: its name when it failed, and the line
\* the caller prints on failure (none when the caller does not test it)
Failed(call, ok) == IF ok THEN {} ELSE {call}
Report(ok, text) == IF ok THEN <<>> ELSE <<text>>

\* The set-up sequence, none of which touches state shared with another
\* thread: pthread_setaffinity_np (384), pthread_getaffinity_np (395) and
\* sched_setscheduler (413), each tested and reported; mlockall (417), whose
\* result is discarded; sleep(1).  Oks is the set of outcomes the
\* environment may produce.
T3_L384(Oks) ==
    /\ pc3 = "L384"
    /\ \E okAff \in Oks, okGet \in Oks, okSched \in Oks, okLock \in Oks :
         ev3' = [fails |-> Failed("pthread_setaffinity_np", okAff)
                           \cup Failed("pthread_getaffinity_np", okGet)
                           \cup Failed("sched_setscheduler", okSched)
                           \cup Failed("mlockall", okLock),
                 reports |-> Report(okAff, "could not set processor affinity")
                             \o Report(okGet, "could not get processor affinity")
                             \o Report(okSched, "could not change scheduler policy")]
    /\ pc3' = "L420"
    /\ UNCHANGED <<prog, affVars, soloVars, mainVars, syncVars, idVars, measVars, regVars,
                   t1Vars, t2Vars, tmp3, iters, histVars>>

\* while (gThdLoopCnt < 30): the counter is read without the mutex
\* a loop that ends one count early
LoopCond_Early(cnt) == cnt < LOOP_THRESHOLD - 1

\* while(gThdLoopCnt < 30)
LoopCond(cnt) == cnt < LOOP_THRESHOLD

\* (the model lets taskThree enter the body at most `bound` times)
T3_L420(bound) ==
    /\ pc3 = "L420"
    /\ LoopCond(gThdLoopCnt) => iters < bound
    /\ NoteAccess(TID3)
    /\ ev3' = NoEvent
    /\ IF LoopCond(gThdLoopCnt)
       THEN pc3' = "L423" /\ iters' = iters + 1
       ELSE pc3' = "L456" /\ iters' = iters
    /\ UNCHANGED <<prog, affVars, soloVars, mainVars, syncVars, idVars, measVars, regVars,
                   t1Vars, t2Vars, tmp3, inc1, inc2, posts, wakes, badAccess>>

\* load of *(gpio1BaseAddrPtr) for "| HPS_GPIO1_LED3"
T3_L423 ==
    /\ pc3 = "L423"
    /\ IF Valid("GPIO1")
       THEN /\ tmp3' = gpio1
            /\ ev3' = NoEvent
            /\ pc3' = "L423w"
            /\ UNCHANGED <<prog, affVars, soloVars, mainVars, syncVars, idVars, measVars, regVars,
                           t1Vars, t2Vars, iters, histVars>>
       ELSE Segv("GPIO1")

\* a write-back that sets LED3 in the word as it is now, in one step
T3_L423w_Atomic ==
    /\ pc3 = "L423w"
    /\ IF Valid("GPIO1")
       THEN /\ gpio1' = gpio1 \cup {LED3}
            /\ tmp3' = {}
            /\ ev3' = NoEvent
            /\ pc3' = "L426"
            /\ UNCHANGED <<prog, affVars, soloVars, mainVars, syncVars, idVars, measVars, fpgaLed,
                           fpgaMem0, t1Vars, t2Vars, iters, histVars>>
       ELSE Segv("GPIO1")

T3_L423w ==
    /\ pc3 = "L423w"
    /\ IF Valid("GPIO1")
       THEN /\ gpio1' = tmp3 \cup {LED3}
            /\ tmp3' = {}
            /\ ev3' = NoEvent
            /\ pc3' = "L426"
            /\ UNCHANGED <<prog, affVars, soloVars, mainVars, syncVars, idVars, measVars, fpgaLed,
                           fpgaMem0, t1Vars, t2Vars, iters, histVars>>
       ELSE Segv("GPIO1")

\* The timed window, none of which touches state shared with another
\* thread:
\*   retVal = clock_gettime(clkID, &tsStart);  (a failure is printed and the
\*   calcModAndMapBits(modBuff);                structure keeps its contents)
\*   retVal = clock_gettime(clkID, &tsEnd);
\*   if (tsEnd.tv_nsec > tsStart.tv_nsec)
\*       { timesPtr[measurementCnt] = tsEnd.tv_nsec - tsStart.tv_nsec;
\*         ++measurementCnt; }
\* Oks, Starts and Ends are the outcomes and the readings the environment
\* may produce.
\* a comparison that also accepts equal nanosecond fields
Later_OrEqual(e, s) == e[2] >= s[2]

\* if (tsEnd.tv_nsec > tsStart.tv_nsec)
Later(e, s) == e[2] > s[2]

T3_L426(Oks, Starts, Ends) ==
    /\ pc3 = "L426"
    /\ \E okS \in Oks, okE \in Oks, vS \in Starts, vE \in Ends :
         LET s == IF okS THEN vS ELSE tsStart
             e == IF okE THEN vE ELSE tsEnd
             ev == [fails |-> Failed("clock_gettime(tsStart)", okS)
                              \cup Failed("clock_gettime(tsEnd)", okE),
                    reports |-> Report(okS, "error reading clock")
                                \o Report(okE, "error reading clock")]
         IN  IF Later(e, s) /\ ~Valid("FPGAMEM")
             THEN Segv("FPGAMEM")
             ELSE /\ tsStart' = s
                  /\ tsEnd' = e
                  /\ ev3' = ev
                  /\ IF Later(e, s)
                     THEN /\ times' = Store(times, measurementCnt, e[2] - s[2])
                          /\ measurementCnt' = measurementCnt + 1
                     ELSE UNCHANGED <<times, measurementCnt>>
                  /\ pc3' = "L450"
                  /\ UNCHANGED <<prog, affVars, soloVars, mainVars, syncVars, idVars, regVars,
                                 t1Vars, t2Vars, tmp3, iters, histVars>>

\* usleep(100000), then the load of *(gpio1BaseAddrPtr) for "& ~LED3"
T3_L450 ==
    /\ pc3 = "L450"
    /\ IF Valid("GPIO1")
       THEN /\ tmp3' = gpio1
            /\ ev3' = NoEvent
            /\ pc3' = "L450w"
            /\ UNCHANGED <<prog, affVars, soloVars, mainVars, syncVars, idVars, measVars, regVars,
                           t1Vars, t2Vars, iters, histVars>>
       ELSE Segv("GPIO1")

\* the store, then usleep(100000) and back to the loop test
T3_L450w ==
    /\ pc3 = "L450w"
    /\ IF Valid("GPIO1")
       THEN /\ gpio1' = tmp3 \ {LED3}
            /\ tmp3' = {}
            /\ ev3' = NoEvent
            /\ pc3' = "L420"
            /\ UNCHANGED <<prog, affVars, soloVars, mainVars, syncVars, idVars, measVars, fpgaLed,
                           fpgaMem0, t1Vars, t2Vars, iters, histVars>>
       ELSE Segv("GPIO1")

\* pthread_cancel(holder).  With the holder still 0 the call is given no
\* thread: it either fails (ESRCH, ignored by the caller) or dereferences
\* the null thread descriptor and the process dies.
CancelStep(from, holder, to) ==
    /\ pc3 = from
    /\ \/ /\ cancelReq' = CancelTarget(holder)
          /\ ev3' = NoEvent
          /\ pc3' = to
          /\ UNCHANGED <<prog, affVars, soloVars, mainVars, syncVars, gThd1IdHolder, gThd2IdHolder,
                         measVars, regVars, t1Vars, t2Vars, tmp3, iters, histVars>>
       \/ /\ holder = 0
          /\ badAccess' = badAccess
          /\ Killed

T3_L456 == CancelStep("L456", gThd1IdHolder, "L457")
T3_L457 == CancelStep("L457", gThd2IdHolder, "exited")

\* the LED3 read-modify-writes of the loop body
T3Shared ==
    \/ T3_L423 \/ T3_L423w \/ T3_L450 \/ T3_L450w

(***************************************************************************)
(* Environments of taskThree's private library calls                       *)
(***************************************************************************)
\* every call succeeds, and the workload always measures one nanosecond
CalmOks == {TRUE}
SteadyStart == {<<0, 0>>}
SteadyEnd == {<<0, 1>>}
\* any call may fail, any reading may be returned
AnyOks == BOOLEAN

(***************************************************************************)
(* The three-task program under every scheduling of its four threads, with *)
(* mmap/munmap failures and button states chosen by the environment, and   *)
(* the calm environment for taskThree's private calls.                     *)
(***************************************************************************)
TaskThree3 ==
    \/ T3_L384(CalmOks) \/ T3_L420(MaxIter) \/ T3Shared
    \/ T3_L426(CalmOks, SteadyStart, SteadyEnd)
    \/ T3_L456 \/ T3_L457

Next3 == Main3 \/ TaskOne3 \/ TaskTwo3 \/ TaskThree3

Spec3 == Init3 /\ [][Next3]_vars

(***************************************************************************)
(* The two-task program (pthrdsTwoThrdsLEDIPC.c).  Its positions are       *)
(* written "Pnnn".  It maps GPIO1 and the FPGA PIO window only; its single *)
(* thread-id holder gThdIdHolder is held in gThd2IdHolder.                 *)
(***************************************************************************)
Init2 ==
    /\ prog = "two"
    /\ pcM = "P179"
    /\ InitCommon

PM_L179 == MapStep("P179", "GPIO1", "P190")
PM_L190 == MapStep("P190", "FPGAPIO", "P199")
PM_L199 == MainTouch("P199", "GPIO1", "P203")
PM_L203 == MainClearGpio1("P203", "P207")

\* pthread_mutex_init, sem_init(&semLED, 0, 0)
PM_L207 ==
    /\ pcM = "P207"
    /\ sharedVariableMutex' = 0
    /\ semLED' = 0
    /\ pcM' = "P213"
    /\ UNCHANGED <<prog, affVars, soloVars, mapped, exitCode, joined, gThdLoopCnt, idVars, measVars,
                   regVars, t1Vars, t2Vars, t3Vars, histVars>>

\* the two pthread_create calls
PM_L213 ==
    /\ pcM = "P213"
    /\ pc1' = "P94" /\ pc2' = "P131"
    /\ pcM' = "P217"
    /\ UNCHANGED <<prog, affVars, soloVars, mapped, exitCode, joined, syncVars, idVars, measVars,
                   regVars, odd1, tmp1, reg1, reg2, ramRead, t3Vars, histVars>>

PM_L217 == JoinStep("P217", TID1, pc1, "P219")
PM_L219 == JoinStep("P219", TID2, pc2, "P223")
PM_L223 == MainClearGpio1("P223", "P227")
PM_L227 == MainClearFpga("P227", "P231")
PM_L231 == UnmapStep("P231", "GPIO1", "P238")
PM_L238 == UnmapStep("P238", "FPGAPIO", "done")

Main2 ==
    \/ PM_L179 \/ PM_L190 \/ PM_L199 \/ PM_L203 \/ PM_L207 \/ PM_L213
    \/ PM_L217 \/ PM_L219 \/ PM_L223 \/ PM_L227 \/ PM_L231 \/ PM_L238

\* ---- taskOne (90-124)
\* a loop that ends one count early
P1_L94_Early ==
    /\ pc1 = "P94"
    /\ NoteAccess(TID1)
    /\ pc1' = IF gThdLoopCnt < LOOP_THRESHOLD - 1 THEN "P95" ELSE "P123"
    /\ UNCHANGED <<prog, affVars, soloVars, mainVars, syncVars, idVars, measVars, regVars,
                   odd1, tmp1, reg1, t2Vars, t3Vars, inc1, inc2, posts, wakes,
                   badAccess>>

\* while (gThdLoopCnt < 30): the counter is read without the mutex
P1_L94 ==
    /\ pc1 = "P94"
    /\ NoteAccess(TID1)
    /\ pc1' = IF gThdLoopCnt < LOOP_THRESHOLD THEN "P95" ELSE "P123"
    /\ UNCHANGED <<prog, affVars, soloVars, mainVars, syncVars, idVars, measVars, regVars,
                   odd1, tmp1, reg1, t2Vars, t3Vars, inc1, inc2, posts, wakes,
                   badAccess>>

\* if (gThdLoopCnt % 2)
P1_L95 ==
    /\ pc1 = "P95"
    /\ odd1' = (gThdLoopCnt % 2 = 1)
    /\ NoteAccess(TID1)
    /\ pc1' = "P98"
    /\ UNCHANGED <<prog, affVars, soloVars, mainVars, syncVars, idVars, measVars, regVars,
                   tmp1, reg1, t2Vars, t3Vars, inc1, inc2, posts, wakes, badAccess>>

\* the load of *(gpio1BaseAddrPtr) (line 98 or 103)
P1_L98 ==
    /\ pc1 = "P98"
    /\ IF Valid("GPIO1")
       THEN /\ tmp1' = gpio1
            /\ pc1' = "P98w"
            /\ UNCHANGED <<prog, affVars, soloVars, mainVars, syncVars, idVars, measVars, regVars,
                           odd1, reg1, t2Vars, t3Vars, histVars>>
       ELSE Segv("GPIO1")

\* the store, then usleep(500000)
P1_L98w ==
    /\ pc1 = "P98w"
    /\ IF Valid("GPIO1")
       THEN /\ gpio1' = IF odd1 THEN tmp1 \cup {LED1} ELSE tmp1 \ {LED1}
            /\ odd1' = FALSE /\ tmp1' = {}
            /\ pc1' = "P108"
            /\ UNCHANGED <<prog, affVars, soloVars, mainVars, syncVars, idVars, measVars, fpgaLed,
                           fpgaMem0, reg1, t2Vars, t3Vars, histVars>>
       ELSE Segv("GPIO1")

\* pthread_mutex_lock
P1_L108 ==
    /\ pc1 = "P108"
    /\ sharedVariableMutex = 0
    /\ sharedVariableMutex' = TID1
    /\ pc1' = "P110"
    /\ UNCHANGED <<prog, affVars, soloVars, mainVars, gThdLoopCnt, semLED, idVars, measVars, regVars,
                   odd1, tmp1, reg1, t2Vars, t3Vars, histVars>>

\* gThdLoopCnt++ : the load
P1_L110 ==
    /\ pc1 = "P110"
    /\ reg1' = gThdLoopCnt
    /\ NoteAccess(TID1)
    /\ pc1' = "P110w"
    /\ UNCHANGED <<prog, affVars, soloVars, mainVars, syncVars, idVars, measVars, regVars,
                   odd1, tmp1, t2Vars, t3Vars, inc1, inc2, posts, wakes, badAccess>>

\* gThdLoopCnt++ : the store
P1_L110w ==
    /\ pc1 = "P110w"
    /\ gThdLoopCnt' = reg1 + 1
    /\ reg1' = 0
    /\ inc1' = inc1 + 1
    /\ NoteAccess(TID1)
    /\ pc1' = "P115"
    /\ UNCHANGED <<prog, affVars, soloVars, mainVars, sharedVariableMutex, semLED, idVars, measVars,
                   regVars, odd1, tmp1, t2Vars, t3Vars, inc2, posts, wakes,
                   badAccess>>

\* printf("task one count ...") with the mutex held, then pthread_mutex_unlock
P1_L115 ==
    /\ pc1 = "P115"
    /\ sharedVariableMutex' = 0
    /\ NoteAccess(TID1)
    /\ pc1' = "P117"
    /\ UNCHANGED <<prog, affVars, soloVars, mainVars, gThdLoopCnt, semLED, idVars, measVars, regVars,
                   odd1, tmp1, reg1, t2Vars, t3Vars, inc1, inc2, posts, wakes,
                   badAccess>>

\* a test that sends a signal after every increment
P1_L117_Always ==
    /\ pc1 = "P117"
    /\ NoteAccess(TID1)
    /\ pc1' = "P119"
    /\ UNCHANGED <<prog, affVars, soloVars, mainVars, syncVars, idVars, measVars, regVars,
                   odd1, tmp1, reg1, t2Vars, t3Vars, inc1, inc2, posts, wakes,
                   badAccess>>

\* if (!(gThdLoopCnt % 5)): read after the unlock
P1_L117 ==
    /\ pc1 = "P117"
    /\ NoteAccess(TID1)
    /\ pc1' = IF gThdLoopCnt % SIGNAL_INTERVAL = 0 THEN "P119" ELSE "P94"
    /\ UNCHANGED <<prog, affVars, soloVars, mainVars, syncVars, idVars, measVars, regVars,
                   odd1, tmp1, reg1, t2Vars, t3Vars, inc1, inc2, posts, wakes,
                   badAccess>>

\* sem_post(&semLED)
P1_L119 ==
    /\ pc1 = "P119"
    /\ semLED' = semLED + 1
    /\ posts' = posts + 1
    /\ pc1' = "P94"
    /\ UNCHANGED <<prog, affVars, soloVars, mainVars, gThdLoopCnt, sharedVariableMutex, idVars,
                   measVars, regVars, odd1, tmp1, reg1, t2Vars, t3Vars, inc1, inc2,
                   wakes, badAccess, unlockedAcc>>

\* pthread_cancel(gThdIdHolder), then taskOne returns.  With the holder
\* still 0 the call either fails (ESRCH) or kills the process.
P1_L123 ==
    /\ pc1 = "P123"
    /\ \/ /\ cancelReq' = CancelTarget(gThd2IdHolder)
          /\ pc1' = "exited"
          /\ UNCHANGED <<prog, affVars, soloVars, mainVars, syncVars, gThd1IdHolder, gThd2IdHolder,
                         measVars, regVars, odd1, tmp1, reg1, t2Vars, t3Vars,
                         histVars>>
       \/ /\ gThd2IdHolder = 0
          /\ badAccess' = badAccess
          /\ Killed

TaskOne2 ==
    \/ P1_L94 \/ P1_L95 \/ P1_L98 \/ P1_L98w \/ P1_L108 \/ P1_L110
    \/ P1_L110w \/ P1_L115 \/ P1_L117 \/ P1_L119 \/ P1_L123

\* ---- taskTwo (128-156)
\* gThdIdHolder = pthread_self()
P2_L131 ==
    /\ pc2 = "P131"
    /\ gThd2IdHolder' = TID2
    /\ pc2' = "P135"
    /\ UNCHANGED <<prog, affVars, soloVars, mainVars, syncVars, gThd1IdHolder, cancelReq, measVars,
                   regVars, t1Vars, reg2, ramRead, t3Vars, histVars>>

\* sem_wait(&semLED)
P2_L135 ==
    /\ pc2 = "P135"
    /\ ~cancelReq[TID2]
    /\ semLED > 0
    /\ semLED' = semLED - 1
    /\ wakes' = wakes + 1
    /\ pc2' = "P138"
    /\ UNCHANGED <<prog, affVars, soloVars, mainVars, gThdLoopCnt, sharedVariableMutex, idVars,
                   measVars, regVars, t1Vars, reg2, ramRead, t3Vars, inc1, inc2,
                   posts, badAccess, unlockedAcc>>

\* printf, then FPGA LED byte |= FPGA_PIO_LED2
P2_L138 ==
    /\ pc2 = "P138"
    /\ IF Valid("FPGAPIO")
       THEN /\ fpgaLed' = fpgaLed \cup {LED2}
            /\ pc2' = "P140"
            /\ UNCHANGED <<prog, affVars, soloVars, mainVars, syncVars, idVars, measVars, gpio1,
                           fpgaMem0, t1Vars, reg2, ramRead, t3Vars, histVars>>
       ELSE Segv("FPGAPIO")

\* usleep(1000000)
P2_L140 ==
    /\ pc2 = "P140"
    /\ ~cancelReq[TID2]
    /\ pc2' = "P143"
    /\ UNCHANGED <<prog, affVars, soloVars, mainVars, syncVars, idVars, measVars, regVars,
                   t1Vars, reg2, ramRead, t3Vars, histVars>>

\* printf, then FPGA LED byte &= ~FPGA_PIO_LED2
P2_L143 ==
    /\ pc2 = "P143"
    /\ IF Valid("FPGAPIO")
       THEN /\ fpgaLed' = fpgaLed \ {LED2}
            /\ pc2' = "P147"
            /\ UNCHANGED <<prog, affVars, soloVars, mainVars, syncVars, idVars, measVars, gpio1,
                           fpgaMem0, t1Vars, reg2, ramRead, t3Vars, histVars>>
       ELSE Segv("FPGAPIO")

\* pthread_mutex_lock
P2_L147 ==
    /\ pc2 = "P147"
    /\ sharedVariableMutex = 0
    /\ sharedVariableMutex' = TID2
    /\ pc2' = "P149"
    /\ UNCHANGED <<prog, affVars, soloVars, mainVars, gThdLoopCnt, semLED, idVars, measVars, regVars,
                   t1Vars, reg2, ramRead, t3Vars, histVars>>

\* gThdLoopCnt++ : the load
P2_L149 ==
    /\ pc2 = "P149"
    /\ reg2' = gThdLoopCnt
    /\ NoteAccess(TID2)
    /\ pc2' = "P149w"
    /\ UNCHANGED <<prog, affVars, soloVars, mainVars, syncVars, idVars, measVars, regVars,
                   t1Vars, ramRead, t3Vars, inc1, inc2, posts, wakes, badAccess>>

\* gThdLoopCnt++ : the store
P2_L149w ==
    /\ pc2 = "P149w"
    /\ gThdLoopCnt' = reg2 + 1
    /\ reg2' = 0
    /\ inc2' = inc2 + 1
    /\ NoteAccess(TID2)
    /\ pc2' = "P154"
    /\ UNCHANGED <<prog, affVars, soloVars, mainVars, sharedVariableMutex, semLED, idVars, measVars,
                   regVars, t1Vars, ramRead, t3Vars, inc1, posts, wakes,
                   badAccess>>

\* printf("task two count ...") with the mutex held, then pthread_mutex_unlock
P2_L154 ==
    /\ pc2 = "P154"
    /\ sharedVariableMutex' = 0
    /\ NoteAccess(TID2)
    /\ pc2' = "P135"
    /\ UNCHANGED <<prog, affVars, soloVars, mainVars, gThdLoopCnt, semLED, idVars, measVars, regVars,
                   t1Vars, reg2, ramRead, t3Vars, inc1, inc2, posts, wakes,
                   badAccess>>

\* Cancellation points of taskTwo: sem_wait (135), the printf calls (137,
\* 142, 151) and usleep (140)
P2CancelPoints == {"P135", "P138", "P140", "P143", "P154"}

P2_Cancel ==
    /\ pc2 \in P2CancelPoints
    /\ cancelReq[TID2]
    /\ pc2' = "exited"
    /\ UNCHANGED <<prog, affVars, soloVars, mainVars, syncVars, idVars, measVars, regVars,
                   t1Vars, reg2, ramRead, t3Vars, histVars>>

TaskTwo2 ==
    \/ P2_L131 \/ P2_L135 \/ P2_L138 \/ P2_L140 \/ P2_L143 \/ P2_L147
    \/ P2_L149 \/ P2_L149w \/ P2_L154 \/ P2_Cancel

Next2 == Main2 \/ TaskOne2 \/ TaskTwo2

Spec2 == Init2 /\ [][Next2]_vars

(***************************************************************************)
(* Either program, from process start                                      *)
(***************************************************************************)
Init == Init3 \/ Init2

Next == Next3 \/ Next2

Spec == Init /\ [][Next]_vars

(***************************************************************************)
(* taskThree before taskOne and taskTwo are first scheduled, with any      *)
(* outcome of its library calls and any clock reading.                     *)
(***************************************************************************)
NextT3 ==
    \/ MainStart3
    \/ T3_L384(AnyOks) \/ T3_L420(MaxIter) \/ T3Shared
    \/ T3_L426(AnyOks, ClockValues, ClockValues)

SpecT3 == Init3 /\ [][NextT3]_vars

(***************************************************************************)
(* The same under the calm environment, for FillIter iterations: the run   *)
(* in which the measurement loop outpaces the counter.                     *)
(***************************************************************************)
NextFill ==
    \/ MainStart3
    \/ T3_L384(CalmOks) \/ T3_L420(FillIter) \/ T3Shared
    \/ T3_L426(CalmOks, SteadyStart, SteadyEnd)

SpecFill == Init3 /\ [][NextFill]_vars

(***************************************************************************)
(* The single-threaded timing programs: the latency test of                *)
(* src/latencyJitterTests.c lines 1-101 (positions "Annn") and             *)
(* src/rtPrioTests.c (positions "Rnnn").                                    *)
(***************************************************************************)
WAIT == 50
MIN_START == 1000000
RT_LOOPS == 100
\* iterations of the latency loop, and largest deviation of one interval, in microseconds
MaxLatIter == 3
MaxDev == 2

Abs(x) == IF x < 0 THEN -x ELSE x

InitLat ==
    /\ prog = "latency"
    /\ pcM = "A40"
    /\ InitCommon

\* if(sched_setscheduler (0, SCHED_FIFO, &mysched) == -1) { puts; perror; exit (0); }
LT_L40 ==
    /\ pcM = "A40"
    /\ \E ok \in BOOLEAN :
         IF ok
         THEN /\ pcM' = "A47"
              /\ UNCHANGED <<schedFailed, exitCode>>
         ELSE /\ schedFailed' = TRUE
              /\ pcM' = "done"
              /\ exitCode' = 0
    /\ UNCHANGED <<prog, affVars, count, result, min, max, average, iR, mapped, joined,
                   syncVars, idVars, measVars, regVars, t1Vars, t2Vars, t3Vars,
                   histVars>>

\* mlockall (result not looked at), then max = 0; average = 0; min = 1000000
LT_L47 ==
    /\ pcM = "A47"
    /\ max' = 0 /\ average' = 0 /\ min' = MIN_START
    /\ pcM' = "A63"
    /\ UNCHANGED <<prog, affVars, count, result, iR, schedFailed, mapped, exitCode,
                   joined, syncVars, idVars, measVars, regVars, t1Vars, t2Vars,
                   t3Vars, histVars>>

\* while(result == 0)
LT_L63 ==
    /\ pcM = "A63"
    /\ result = 0 => count < MaxLatIter
    /\ pcM' = IF result = 0 THEN "A65" ELSE "A99"
    /\ UNCHANGED <<prog, affVars, soloVars, mapped, exitCode, joined, syncVars, idVars,
                   measVars, regVars, t1Vars, t2Vars, t3Vars, histVars>>

\* the loop body: ++count, select() with a WAIT ms timeout, the interval
\* since the last pass and the statistics of its deviation from WAIT ms
LT_L65 ==
    /\ pcM = "A65"
    /\ \E r \in {-1, 0, 1}, d \in (-MaxDev)..MaxDev :
         LET interval == WAIT * 1000 + d
             current == interval - WAIT * 1000
         IN  /\ count' = count + 1
             /\ result' = r
             /\ max' = IF Abs(current) > max THEN Abs(current) ELSE max
             /\ min' = IF Abs(current) < min THEN Abs(current) ELSE min
             /\ average' = IF average = 0 THEN Abs(current)
                           ELSE (average + Abs(current)) \div 2
    /\ pcM' = "A63"
    /\ UNCHANGED <<prog, affVars, iR, schedFailed, mapped, exitCode, joined, syncVars,
                   idVars, measVars, regVars, t1Vars, t2Vars, t3Vars, histVars>>

\* printf("End latency test process ..."); return 0;
LT_L99 ==
    /\ pcM = "A99"
    /\ pcM' = "done"
    /\ exitCode' = 0
    /\ UNCHANGED <<prog, affVars, soloVars, mapped, joined, syncVars, idVars, measVars,
                   regVars, t1Vars, t2Vars, t3Vars, histVars>>

LatencyMain == LT_L40 \/ LT_L47 \/ LT_L63 \/ LT_L65 \/ LT_L99

InitRt ==
    /\ prog = "rtprio"
    /\ pcM = "R35"
    /\ InitCommon

\* rc = sched_setscheduler(0, SCHED_FIFO, &my_params); if ( rc == -1 ) printf(...)
RT_L35 ==
    /\ pcM = "R35"
    /\ \E ok \in BOOLEAN : schedFailed' = ~ok
    /\ pcM' = "R45"
    /\ UNCHANGED <<prog, affVars, count, result, min, max, average, iR, mapped, exitCode,
                   joined, syncVars, idVars, measVars, regVars, t1Vars, t2Vars,
                   t3Vars, histVars>>

\* for(i = 0; i < 100; ++i) { gettimeofday; fill buffer; select; gettimeofday; printf }
RT_L45 ==
    /\ pcM = "R45"
    /\ iR < RT_LOOPS
    /\ iR' = iR + 1
    /\ UNCHANGED <<prog, affVars, count, result, min, max, average, schedFailed, mapped,
                   pcM, exitCode, joined, syncVars, idVars, measVars, regVars,
                   t1Vars, t2Vars, t3Vars, histVars>>

\* return 0;
RT_L61 ==
    /\ pcM = "R45"
    /\ iR >= RT_LOOPS
    /\ pcM' = "done"
    /\ exitCode' = 0
    /\ UNCHANGED <<prog, affVars, soloVars, mapped, joined, syncVars, idVars, measVars,
                   regVars, t1Vars, t2Vars, t3Vars, histVars>>

RtPrioMain == RT_L35 \/ RT_L45 \/ RT_L61

InitSched == InitLat \/ InitRt

NextSched == LatencyMain \/ RtPrioMain

SpecSched == InitSched /\ [][NextSched]_vars

(***************************************************************************)
(* The affinity demonstration, src/sysCallsCPUSched.c (positions "Snnn").  *)
(***************************************************************************)
\* processors of the largest machine considered
MaxCpu == 4

\* the value of main's return -1 as an exit status
ExitStatus(ret) == ret % 256

InitAff ==
    /\ prog = "affinity"
    /\ pcM = "S25"
    /\ InitExceptAffinity
    /\ cpuSet = {}
    /\ online \in {0..(n - 1) : n \in 1..MaxCpu}
    /\ affinity \in SUBSET online \ {{}}

\* CPU_ZERO, CPU_SET(0), CPU_ZERO on the local mask, with their printfs; getpid
SC_L25 ==
    /\ pcM = "S25"
    /\ cpuSet' = (({} \cup {0}) \ {0})
    /\ pcM' = "S41"
    /\ UNCHANGED <<prog, affinity, online, soloVars, mapped, exitCode, joined,
                   syncVars, idVars, measVars, regVars, t1Vars, t2Vars, t3Vars,
                   histVars>>

\* sched_getaffinity writes the hard affinity into the mask; on failure return -1
GetAffinity(from, to) ==
    /\ pcM = from
    /\ \E ok \in BOOLEAN :
         IF ok
         THEN /\ cpuSet' = affinity
              /\ pcM' = to
              /\ UNCHANGED exitCode
         ELSE /\ pcM' = "done"
              /\ exitCode' = ExitStatus(-1)
              /\ UNCHANGED cpuSet
    /\ UNCHANGED <<prog, affinity, online, soloVars, mapped, joined, syncVars,
                   idVars, measVars, regVars, t1Vars, t2Vars, t3Vars, histVars>>

SC_L41 == GetAffinity("S41", "S48")

\* the print loop of lines 48-52, then CPU_ZERO and CPU_SET(1)
SC_L48 ==
    /\ pcM = "S48"
    /\ cpuSet' = {1}
    /\ pcM' = "S60"
    /\ UNCHANGED <<prog, affinity, online, soloVars, mapped, exitCode, joined,
                   syncVars, idVars, measVars, regVars, t1Vars, t2Vars, t3Vars,
                   histVars>>

\* sched_setaffinity: the kernel keeps the processors of the mask that the
\* machine has, and fails if there is none; on failure return -1
SC_L60 ==
    /\ pcM = "S60"
    /\ \E ok \in BOOLEAN :
         IF ok /\ cpuSet \cap online # {}
         THEN /\ affinity' = cpuSet \cap online
              /\ pcM' = "S65"
              /\ UNCHANGED exitCode
         ELSE /\ pcM' = "done"
              /\ exitCode' = ExitStatus(-1)
              /\ UNCHANGED affinity
    /\ UNCHANGED <<prog, cpuSet, online, soloVars, mapped, joined, syncVars,
                   idVars, measVars, regVars, t1Vars, t2Vars, t3Vars, histVars>>

\* a clearing of the mask that also clears the affinity
SC_L65_ClearsAffinity ==
    /\ pcM = "S65"
    /\ cpuSet' = {}
    /\ affinity' = {}
    /\ pcM' = "S72"
    /\ UNCHANGED <<prog, online, soloVars, mapped, exitCode, joined,
                   syncVars, idVars, measVars, regVars, t1Vars, t2Vars, t3Vars,
                   histVars>>

\* CPU_ZERO(&cpuSet), and the two printfs of CPU_ISSET on the cleared mask
SC_L65 ==
    /\ pcM = "S65"
    /\ cpuSet' = {}
    /\ pcM' = "S72"
    /\ UNCHANGED <<prog, affinity, online, soloVars, mapped, exitCode, joined,
                   syncVars, idVars, measVars, regVars, t1Vars, t2Vars, t3Vars,
                   histVars>>

SC_L72 == GetAffinity("S72", "S78")

\* the print loop of lines 78-82; return 0
SC_L78 ==
    /\ pcM = "S78"
    /\ pcM' = "done"
    /\ exitCode' = 0
    /\ UNCHANGED <<prog, affVars, soloVars, mapped, joined, syncVars, idVars,
                   measVars, regVars, t1Vars, t2Vars, t3Vars, histVars>>

AffinityMain == SC_L25 \/ SC_L41 \/ SC_L48 \/ SC_L60 \/ SC_L65 \/ SC_L72 \/ SC_L78

SpecAff == InitAff /\ [][AffinityMain]_vars

(***************************************************************************)
(* Properties                                                              *)
(***************************************************************************)

\* C1: no increment of the shared counter is lost: at every moment, and so
\* in particular once taskOne and taskTwo have both stopped, the counter
\* equals the number of increments taskOne has performed plus the number
\* taskTwo has performed.
C1_NoLostUpdate == gThdLoopCnt = inc1 + inc2

\* both tasks incremented, both have exited
C1_Witness ==
    /\ pc1 = "exited" /\ pc2 = "exited"
    /\ inc1 > 0 /\ inc2 > 0

\* C2: every read and every write of the shared counter happens while the
\* accessing thread holds the lock.
C2_AccessOnlyUnderLock == unlockedAcc = {}

\* C3: the semaphore's count starts at zero and is never negative, and the
\* number of completed waits never exceeds the number of posts.
C3_SemaphoreCount ==
    /\ semLED >= 0
    /\ wakes <= posts
    /\ posts = 0 => semLED = 0

\* taskTwo has consumed every post made so far
C3_Witness ==
    /\ posts > 1
    /\ wakes = posts
    /\ semLED = 0

\* C4: the number of stored samples never exceeds the buffer's capacity of
\* MEAS_ARRAY_SIZE entries.
C4_LengthWithinCapacity == measurementCnt <= MEAS_ARRAY_SIZE

\* C5: an iteration of the measurement loop whose end nanosecond field is
\* not greater than its start nanosecond field leaves the buffer and its
\* length unchanged; any other iteration appends exactly one sample, the
\* difference of the two nanosecond fields.
C5_WraparoundDiscard ==
    [][ (pc3 = "L426" /\ pc3' = "L450") =>
          IF tsEnd'[2] <= tsStart'[2]
          THEN /\ measurementCnt' = measurementCnt
               /\ times' = times
          ELSE /\ measurementCnt' = measurementCnt + 1
               /\ DOMAIN times' = DOMAIN times \cup {measurementCnt}
               /\ times'[measurementCnt] = tsEnd'[2] - tsStart'[2]
               /\ \A i \in DOMAIN times \ {measurementCnt} : times'[i] = times[i]
      ]_vars

\* two iterations done: one stored its sample, the last one was discarded
C5_Witness ==
    /\ pc3 = "L450"
    /\ iters = 2
    /\ measurementCnt = 1
    /\ tsEnd[2] <= tsStart[2]

\* C6: a task that has exited after cancellation does not hold the lock.
C6_ExitedHoldsNoLock ==
    /\ pc1 = "exited" => sharedVariableMutex # TID1
    /\ pc2 = "exited" => sharedVariableMutex # TID2

\* C7: a task whose cancellation has been requested does not stay blocked
\* forever: it is never waiting for the lock while the lock's owner has
\* already exited.
C7_CancelledNotBlockedForever ==
    /\ ~(cancelReq[TID1] /\ pc1 = "L291"
         /\ sharedVariableMutex = TID2 /\ pc2 = "exited")
    /\ ~(cancelReq[TID2] /\ pc2 = "L329"
         /\ sharedVariableMutex = TID1 /\ pc1 = "exited")

\* C8: taskThree enters its loop body only when the counter it read is
\* below LOOP_THRESHOLD, it asks for cancellation only after reading a
\* counter of at least LOOP_THRESHOLD, and from the first cancellation
\* request on the counter is at least LOOP_THRESHOLD.
C8_LoopAndCancelThreshold ==
    /\ []( (pc3 \in {"L456", "L457"} \/ cancelReq[TID1] \/ cancelReq[TID2])
             => gThdLoopCnt >= LOOP_THRESHOLD )
    /\ [][ (pc3 = "L420" /\ pc3' = "L423") => gThdLoopCnt < LOOP_THRESHOLD ]_vars

\* taskThree went round its loop and has then requested both cancellations
C8_Witness ==
    /\ prog = "three"
    /\ iters > 0
    /\ cancelReq[TID1] /\ cancelReq[TID2]
    /\ pc3 = "exited"

\* C9 as written: main joins taskThree first, then taskOne, then taskTwo.
C9_JoinMeasurementFirst ==
    prog = "three" =>
        /\ Len(joined) <= 3
        /\ \A i \in 1..Len(joined) : joined[i] = <<TID3, TID1, TID2>>[i]

\* C9: main joins taskOne first, then taskTwo, then taskThree.
C9_JoinOrder ==
    prog = "three" =>
        /\ Len(joined) <= 3
        /\ \A i \in 1..Len(joined) : joined[i] = <<TID1, TID2, TID3>>[i]

\* all three joins have returned
C9_Witness ==
    /\ prog = "three"
    /\ Len(joined) = 3
    /\ pcM = "L569"

\* C10: a register window is read or written only while it is validly
\* mapped.
C10_AccessOnlyWhileMapped == badAccess = {}

\* C11: main's exit code is 0 exactly on a clean shutdown and 1 when an
\* unmapping failed, and a failed mapping aborts the run: no task is ever
\* started once a mapping has failed.
C11_ExitCodeAndMapAbort ==
    /\ pcM = "done" =>
         exitCode = (IF \A w \in Windows : mapped[w] \in {"unmapped", "none"}
                     THEN 0 ELSE 1)
    /\ (\E w \in Windows : mapped[w] = "failed") =>
         /\ pc1 \in {"idle", "killed"}
         /\ pc2 \in {"idle", "killed"}
         /\ pc3 \in {"idle", "killed"}

\* C12 as written: a failed unmapping does not end the unmapping sequence;
\* main goes on to the unmapping of the next window.
C12_UnmapGoesOn ==
    [][ /\ pcM = "L585" => pcM' \in {"L585", "L592"}
        /\ pcM = "L592" => pcM' \in {"L592", "L599"}
        /\ pcM = "L599" => pcM' \in {"L599", "L606"}
        /\ pcM = "P231" => pcM' \in {"P231", "P238"}
      ]_vars

\* C12: the first unmapping that fails ends main at once with exit code 1
\* and leaves that window and every later one mapped; an unmapping that
\* succeeds is followed by the next one.
C12_UnmapStopsAtFirstFailure ==
    [][ (pcM \in {"L585", "L592", "L599", "L606", "P231", "P238"} /\ pcM' # pcM) =>
          IF mapped' = mapped
          THEN pcM' = "done" /\ exitCode' = 1
          ELSE /\ exitCode' # 1
               /\ pcM' = "done" <=> pcM \in {"L606", "P238"}
      ]_vars

\* the second unmapping failed: the third and fourth windows stay mapped
C12_Witness ==
    /\ prog = "three"
    /\ pcM = "done" /\ exitCode = 1
    /\ mapped["GPIO1"] = "unmapped"
    /\ mapped["FPGAPIO"] = "ok"
    /\ mapped["GPIO2"] = "ok"
    /\ mapped["FPGAMEM"] = "ok"

\* C13: a failure of sched_setscheduler is never fatal: a program whose call
\* failed and that has ended has gone through its timed loop.
C13_SchedFailureNotFatal ==
    (schedFailed /\ pcM = "done") =>
        /\ prog = "latency" => count > 0
        /\ prog = "rtprio" => iR > 0

\* C14: every failure of a scheduling set-up call of taskThree (affinity,
\* real-time priority, memory locking) is reported: when the set-up is
\* over there is one report for each call that failed.
C14_SetupFailureReported ==
    (pc3 = "L420" /\ iters = 0) => Len(ev3.reports) = Cardinality(ev3.fails)

\* C15: an iteration of the measurement loop in which a clock read failed
\* reports each failure and leaves the buffer and its length unchanged.
C15_ClockFailureSkipsSample ==
    [][ (pc3 = "L426" /\ pc3' = "L450" /\ ev3'.fails # {}) =>
          /\ Len(ev3'.reports) = Cardinality(ev3'.fails)
          /\ measurementCnt' = measurementCnt
          /\ times' = times
      ]_vars

\* C16 as written: taskOne has signalled once for each complete group of
\* five of its own increments, whenever it is at the top of its loop.
C16_SignalEveryOwnFifth ==
    pc1 \in {"L252", "P94"} => posts = inc1 \div SIGNAL_INTERVAL

\* C16: after an increment of its own taskOne reads the shared counter
\* again, without the lock, and sends one signal exactly when the value it
\* reads is a multiple of SIGNAL_INTERVAL; signals are sent nowhere else.
C16_SignalOnSharedMultiple ==
    [][ /\ (pc1 = "L300" /\ pc1' \in {"L302", "L252"}) =>
              (pc1' = "L302" <=> gThdLoopCnt % SIGNAL_INTERVAL = 0)
        /\ (pc1 = "P117" /\ pc1' \in {"P119", "P94"}) =>
              (pc1' = "P119" <=> gThdLoopCnt % SIGNAL_INTERVAL = 0)
        /\ posts' # posts =>
              /\ posts' = posts + 1
              /\ pc1 \in {"L302", "P119"}
              /\ pc1' \in {"L252", "P94"}
      ]_vars

\* taskOne is about to signal after an increment that is not its own
\* fifth, tenth, ...
C16_Witness ==
    /\ pc1 = "L302"
    /\ inc1 % SIGNAL_INTERVAL # 0
    /\ gThdLoopCnt % SIGNAL_INTERVAL = 0

C18_EvenClearsAll ==
    [][ (pc1 \in {"L255w", "P98w"} /\ pc1' \in {"L262", "P108"} /\ ~odd1) =>
          gpio1' = {}
      ]_vars

\* C18: the write-back sets LED1 on an odd count and clears LED1 on an even
\* count, and in both cases keeps every other bit of the word it read.
C18_ParityTogglesLed1Only ==
    [][ (pc1 \in {"L255w", "P98w"} /\ pc1' \in {"L262", "P108"}) =>
          /\ LED1 \in gpio1' <=> odd1
          /\ gpio1' \ {LED1} = tmp1 \ {LED1}
      ]_vars

\* taskOne has just written the word back, and LED3 is still on in it
C18_Witness ==
    /\ pc1 = "L262"
    /\ gpio1 = {LED3}

\* C19: the shared counter is never reset and never decreases: every step
\* leaves it unchanged or adds exactly 1, and a step that changes it is the
\* store of an increment of taskOne or of taskTwo.
C19_CounterMonotone ==
    [][ gThdLoopCnt' # gThdLoopCnt =>
          /\ gThdLoopCnt' = gThdLoopCnt + 1
          /\ \/ pc1 \in {"L292w", "P110w"} /\ pc1' # pc1 /\ inc1' = inc1 + 1
             \/ pc2 \in {"L331w", "P149w"} /\ pc2' # pc2 /\ inc2' = inc2 + 1
      ]_vars

\* both tasks have incremented and the counter has reached the threshold
C19_Witness ==
    /\ gThdLoopCnt >= LOOP_THRESHOLD
    /\ inc1 > 0 /\ inc2 > 0

\* C20: signals accumulate: the semaphore's count is always the number of
\* posts minus the number of waits that have returned.
C20_SignalsAccumulate == semLED = posts - wakes

\* two signals are pending at once
C20_Witness ==
    /\ semLED > 1
    /\ posts - wakes > 1

\* C21: the read-modify-writes of taskOne (LED1) and of taskThree (LED3) on
\* the GPIO1 data word are not serialized: each write-back stores the other
\* task's bit as it was when the word was read, whatever the word holds by
\* then, so a stale value of that bit can be restored.
C21_WriteBackRestoresReadBit ==
    [][ /\ (pc1 = "L255w" /\ pc1' = "L262") =>
              (LED3 \in gpio1' <=> LED3 \in tmp1)
        /\ (pc3 = "L423w" /\ pc3' = "L426") =>
              (LED1 \in gpio1' <=> LED1 \in tmp3)
        /\ (pc3 = "L450w" /\ pc3' = "L420") =>
              (LED1 \in gpio1' <=> LED1 \in tmp3)
      ]_vars

\* taskThree has cleared LED3 and is back at its loop test, yet LED3 is on
\* again: taskOne has written back a word it read before the clear
C21_Witness ==
    /\ pc3 = "L420"
    /\ iters > 0
    /\ LED3 \in gpio1

\* C22: taskOne and taskTwo are never both between their lock and their
\* unlock, and the control word of the on-chip memory is written (taskOne)
\* and read (taskTwo) only by the owner of the mutex.
C22_MutualExclusion ==
    /\ ~(/\ pc1 \in {"L292", "L292w", "L294", "L295", "P110", "P110w", "P115"}
         /\ pc2 \in {"L331", "L331w", "L333", "L337", "P149", "P149w", "P154"})
    /\ pc1 = "L294" => sharedVariableMutex = TID1
    /\ pc2 = "L333" => sharedVariableMutex = TID2

\* taskOne is about to write the control word while taskTwo waits for the lock
C22_Witness ==
    /\ pc1 = "L294"
    /\ pc2 = "L329"
    /\ sharedVariableMutex = TID1

\* C23: taskTwo sets its indicator and increments the counter only after a
\* wait it has completed in the same cycle, so its increments never exceed
\* its completed waits, and it has exited only if its cancellation was
\* requested.
C23_DependentCycle ==
    /\ inc2 <= wakes
    /\ pc2 \in {"L320", "L322", "L325", "L329", "L331", "L331w",
                "P138", "P140", "P143", "P147", "P149", "P149w"}
          => wakes = inc2 + 1
    /\ pc2 \in {"idle", "L313", "L317", "L333", "L337", "L359",
                "P131", "P135", "P154"}
          => wakes = inc2
    /\ LED2 \in fpgaLed => pc2 \in {"L322", "L325", "P140", "P143", "exited", "killed"}
    /\ pc2 = "exited" => cancelReq[TID2]

\* taskTwo has been through two whole cycles and was then cancelled
C23_Witness ==
    /\ pc2 = "exited"
    /\ cancelReq[TID2]
    /\ inc2 >= 2
    /\ wakes >= inc2

\* C24: the sample buffer is append-only: its length never decreases, the
\* written slots are exactly those below the length, and a step that
\* changes the buffer is taskThree's store into the slot at the current
\* length, a slot not written before, followed by the length going up by 1.
C24_AppendOnly ==
    /\ [](DOMAIN times = 0..(measurementCnt - 1))
    /\ [][ /\ measurementCnt' >= measurementCnt
           /\ (times' # times \/ measurementCnt' # measurementCnt) =>
                /\ pc3 = "L426"
                /\ measurementCnt \notin DOMAIN times
                /\ measurementCnt' = measurementCnt + 1
                /\ DOMAIN times' = DOMAIN times \cup {measurementCnt}
                /\ \A k \in DOMAIN times : times'[k] = times[k]
         ]_vars

\* two samples stored, in slots 0 and 1
C24_Witness ==
    /\ measurementCnt = 2
    /\ DOMAIN times = {0, 1}
    /\ pc3 = "L450"

\* C25: the signals sent by taskOne, and so the waits completed by taskTwo,
\* never exceed the shared counter divided by SIGNAL_INTERVAL, rounded down.
C25_SignalBudget ==
    /\ posts <= gThdLoopCnt \div SIGNAL_INTERVAL
    /\ wakes <= gThdLoopCnt \div SIGNAL_INTERVAL

\* the budget is used up: six signals sent and six waits done at counter 30
C25_Witness ==
    /\ gThdLoopCnt = LOOP_THRESHOLD
    /\ posts = 6
    /\ wakes = 6

\* C26: from main's clear steps after the joins until the unmapping is
\* over, no indicator bit of GPIO1 and none of the FPGA LED byte is set.
C26_IndicatorsClearedAfterJoin ==
    pcM \in {"L577", "L585", "L592", "L599", "L606", "P231", "P238"} =>
        /\ gpio1 = {}
        /\ fpgaLed = {}

\* the three tasks are joined and main has done both clear steps
C26_Witness ==
    /\ prog = "three"
    /\ pcM = "L577"
    /\ joined = <<TID1, TID2, TID3>>
    /\ pc2 = "exited" /\ inc2 < wakes

\* C27: a stored sample is the elapsed time in nanoseconds between the two
\* clock readings of its iteration, seconds included, whenever both reads
\* succeeded and the end reading is not earlier than the start reading.
C27_SampleIsElapsedTime ==
    [][ (/\ pc3 = "L426" /\ pc3' = "L450"
         /\ ev3'.fails = {}
         /\ measurementCnt' = measurementCnt + 1) =>
          times'[measurementCnt] =
              (tsEnd'[1] - tsStart'[1]) * 1000000000 + (tsEnd'[2] - tsStart'[2])
      ]_vars

\* C28: while taskOne is between its unlock and its test of the counter, a
\* change of the counter does not change what the test will find: the
\* value is a multiple of SIGNAL_INTERVAL after the change exactly if it
\* was one before.
C28_TestSeesOwnIncrement ==
    [][ (pc1 \in {"L300", "P117"} /\ gThdLoopCnt' # gThdLoopCnt) =>
          (gThdLoopCnt' % SIGNAL_INTERVAL = 0 <=> gThdLoopCnt % SIGNAL_INTERVAL = 0)
      ]_vars

\* C29: pthread_cancel is never called on a holder that is still 0.
C29_HolderWrittenBeforeCancel ==
    [][ /\ (pc3 = "L456" /\ pc3' = "L457") => gThd1IdHolder # 0
        /\ (pc3 = "L457" /\ pc3' = "exited") => gThd2IdHolder # 0
        /\ (pc1 = "P123" /\ pc1' = "exited") => gThd2IdHolder # 0
      ]_vars

\* C30: the three-task run never reaches a state in which main waits in a
\* join and no thread can take a step.
C30_NoJoinDeadlock ==
    (prog = "three" /\ pcM \in {"L561", "L563", "L565"}) => ENABLED Next3

\* C31: in the three-task program the control word taskTwo reads inside
\* its locked section is
\* RAM_MAGIC, the value taskOne wrote, whatever the memory held at the
\* start: taskOne has written the word before taskTwo's first wait returns,
\* and nothing else writes it.
C31_ControlWordRoundTrip ==
    /\ (prog = "three" /\ wakes > 0) => fpgaMem0 = RAM_MAGIC
    /\ pc2 = "L333" => fpgaMem0 = RAM_MAGIC
    /\ pc2 = "L337" => ramRead = RAM_MAGIC
    /\ ramRead \in {0, RAM_MAGIC}

\* taskTwo has just read the word in its second cycle
C31_Witness ==
    /\ pc2 = "L337"
    /\ ramRead = RAM_MAGIC
    /\ inc2 = 2

\* C32: in the affinity demonstration the hard affinity is changed only by
\* a successful sched_setaffinity: once the process is restricted to
\* processor 1, clearing the local mask leaves the affinity alone and the
\* next sched_getaffinity returns processor 1 set and processor 0 not set;
\* a failed get or set call ends the program at once with a non-zero status.
C32_AffinityOnlyBySetCall ==
    /\ []( /\ pcM \in {"S65", "S72", "S78"} => affinity = {1}
           /\ pcM = "S78" => (1 \in cpuSet /\ 0 \notin cpuSet)
           /\ (prog = "affinity" /\ pcM = "done" /\ exitCode = 0) => affinity = {1} )
    /\ [][ /\ affinity' # affinity => (pcM = "S60" /\ pcM' = "S65")
           /\ (pcM \in {"S41", "S72"} /\ pcM' # "done") => cpuSet' = affinity
           /\ (pcM = "S60" /\ pcM' # "done") => (1 \in online /\ affinity' = {1})
           /\ (prog = "affinity" /\ pcM' = "done" /\ pcM # "done") =>
                 IF pcM = "S78" THEN exitCode' = 0 ELSE exitCode' > 0
         ]_vars

\* the mask has been cleared and the affinity is still processor 1 alone,
\* on a machine where it was wider before
C32_Witness ==
    /\ pcM = "S72"
    /\ cpuSet = {}
    /\ affinity = {1}
    /\ online = 0..2

====
